---- MODULE Spec2Model ----
(***************************************************************************)
(* Model of gtpo::Serializer<> (gtpoSerializer.h): the progress notifier   *)
(* slot (a std::unique_ptr), its two registration overloads and two        *)
(* accessors, the stream based serializeOut / serializeIn hooks with their *)
(* no-op defaults, and the file name wrappers serializeOutTo /             *)
(* serializeInFrom built on std::ofstream / std::ifstream.                 *)
(***************************************************************************)
EXTENDS Integers, Sequences, FiniteSets, TLC

\* ------------------------------------------------------------------ bounds
\* Number of IProgressNotifier objects ever allocated (the default included).
MaxReporters == 3

\* ------------------------------------------------------------- vocabulary
\* nullptr
Null == 0

Reporters == 1..MaxReporters

\* Graph contents are opaque to the serializer interface: two stand for all.
Graphs == {"g0", "g1"}

\* What a byte channel holds is a sequence of tokens: a complete encoding of
\* a graph, or the partial encoding a failed serializeOut leaves behind.
Encode(g) == [graph |-> g, complete |-> TRUE]
Truncated == [graph |-> "none", complete |-> FALSE]
Tokens == {Encode(g) : g \in Graphs} \cup {Truncated}

\* The file names the caller uses: "a" can be created and written, "ro" is
\* an existing file that opens for reading only, "nodir" can never be opened.
Paths == {"a", "ro", "nodir"}
WritablePaths == {"a"}

\* What a concrete override of a serialize hook does on one call: succeed or
\* fail, leave partial output or not, invoke the progress notifier or not.
Behaviours == {d \in [ok : BOOLEAN, partial : BOOLEAN, notify : BOOLEAN] :
                  d.ok => ~d.partial}
Quiet == [ok |-> TRUE, partial |-> FALSE, notify |-> FALSE]

VARIABLES
    _progressNotifier,  \* Serializer::_progressNotifier (object id or Null)
    heap,               \* heap[o]: "unallocated", "live", "deleted", "deleted again"
    handle,             \* the raw IProgressNotifier* the caller retains
    concrete,           \* TRUE: a subclass overrides the serialize hooks
    graph,              \* the caller's graph
    fs,                 \* the file system: fs[p] = [exists, bytes]
    openChannels,       \* file channels currently open
    crashed,            \* the process died on undefined behaviour
    last                \* what the last call did and how it ended

vars == <<_progressNotifier, heap, handle, concrete, graph, fs,
          openChannels, crashed, last>>

Registers == {"registerProgressNotifier(unique_ptr)", "registerProgressNotifier(raw)"}
Wrappers == {"serializeOutTo", "serializeInFrom"}
StreamHooks == {"serializeOut", "serializeIn"}
CapabilityHooks == {"OutSerializer::serializeOut", "InSerializer::serializeIn"}

NoCall ==
    [op |-> "none", arg |-> Null, prev |-> Null, deleted |-> <<>>,
     outcome |-> "none", ret |-> Null, after |-> Null, cerr |-> FALSE,
     openFailed |-> FALSE, delegated |-> FALSE, delegateThrew |-> FALSE,
     notified |-> FALSE, path |-> "none",
     given |-> <<>>, left |-> [buf |-> <<>>, pos |-> 0]]

\* -------------------------------------------------------- the notifier slot
\* std::unique_ptr::swap: the two pointers exchange their pointees.
Swap(a, b) == <<b, a>>

\* ~unique_ptr: deletes the pointee, if there is one.
UniquePtrDtor(p) == IF p = Null THEN <<>> ELSE <<p>>

\* The same without the test of lines 127-128.
RegisterUnique_NoGuard(held, arg) ==
    LET s == Swap(held, arg)
    IN  [held |-> s[1], deleted |-> UniquePtrDtor(s[2])]

\* registerProgressNotifier( std::unique_ptr ): the by-value parameter holds
\* the old notifier after the swap and deletes it when the call returns.
RegisterUnique(held, arg) ==
    IF arg = Null
    THEN [held |-> held, deleted |-> <<>>]
    ELSE LET s == Swap(held, arg)
         IN  [held |-> s[1], deleted |-> UniquePtrDtor(s[2])]

\* The same without the test of lines 136-137.
RegisterRaw_NoGuard(held, arg) ==
    LET s == Swap(held, arg)
    IN  [held |-> s[1], deleted |-> UniquePtrDtor(s[2])]

\* registerProgressNotifier( IProgressNotifier* ): a temporary unique_ptr is
\* built on the raw pointer, swapped with the member, and destroyed at the
\* end of the statement with whatever it then holds.
RegisterRaw(held, arg) ==
    IF arg = Null
    THEN [held |-> held, deleted |-> <<>>]
    ELSE LET s == Swap(held, arg)
         IN  [held |-> s[1], deleted |-> UniquePtrDtor(s[2])]

\* gtpo::assert_throw( expr, message ): TRUE when it throws, which is when
\* the asserted expression is false.
assert_throw(expr) == ~expr

\* getProgressNotifier(), non const.
GetProgressNotifier(held) ==
    IF assert_throw(held = Null)
    THEN [outcome |-> "thrown", ret |-> Null]
    ELSE [outcome |-> "returned", ret |-> held]

\* getProgressNotifier() const.
GetProgressNotifierConst(held) == [outcome |-> "returned", ret |-> held]

\* delete o: a live object dies; deleting a dead one is a double delete.
Deleted(status) == IF status = "live" THEN "deleted" ELSE "deleted again"

\* delete on each object of ds, in order.
RECURSIVE Delete(_, _)
Delete(h, ds) ==
    IF ds = <<>> THEN h
    ELSE Delete([h EXCEPT ![Head(ds)] = Deleted(@)], Tail(ds))

\* Some object of ds is deleted although it is not live.
DoubleDelete(h, ds) == \E i \in 1..Len(ds) : h[ds[i]] # "live"

\* The object the caller can create now with new.
Unallocated == {o \in Reporters : heap[o] = "unallocated"}
Fresh == IF Unallocated = {} THEN {}
         ELSE {CHOOSE o \in Unallocated : \A p \in Unallocated : o <= p}

\* The raw pointer the caller still holds on the installed notifier.
Retained == IF handle # Null /\ handle = _progressNotifier THEN {handle} ELSE {}

Init ==
    /\ _progressNotifier = 1
    /\ heap = [o \in Reporters |-> IF o = 1 THEN "live" ELSE "unallocated"]
    /\ handle = Null
    /\ concrete \in BOOLEAN
    /\ graph \in Graphs
    /\ fs = [p \in Paths |->
                IF p = "ro" THEN [exists |-> TRUE, bytes |-> <<Encode("g1")>>]
                ELSE [exists |-> FALSE, bytes |-> <<>>]]
    /\ openChannels = {}
    /\ crashed = FALSE
    /\ last = NoCall

\* The effect of a registration on the heap and on the slot.
Registered(op, arg, r) ==
    LET h1 == IF arg \in Fresh THEN [heap EXCEPT ![arg] = "live"] ELSE heap
    IN  /\ _progressNotifier' = r.held
        /\ heap' = Delete(h1, r.deleted)
        /\ crashed' \in (IF DoubleDelete(h1, r.deleted) THEN BOOLEAN ELSE {FALSE})
        /\ last' = [NoCall EXCEPT !.op = op, !.arg = arg,
                                  !.prev = _progressNotifier,
                                  !.deleted = r.deleted, !.outcome = "returned"]

RegisterUniqueCall ==
    /\ ~crashed
    /\ \E arg \in {Null} \cup Fresh :
          /\ Registered("registerProgressNotifier(unique_ptr)", arg,
                        RegisterUnique(_progressNotifier, arg))
          /\ UNCHANGED handle
    /\ UNCHANGED <<concrete, graph, fs, openChannels>>

RegisterRawCall ==
    /\ ~crashed
    /\ \E arg \in {Null} \cup Fresh \cup Retained :
          /\ Registered("registerProgressNotifier(raw)", arg,
                        RegisterRaw(_progressNotifier, arg))
          /\ handle' = IF arg = Null THEN handle ELSE arg
    /\ UNCHANGED <<concrete, graph, fs, openChannels>>

\* The reporter registered by the call just before this one, if any.
JustRegistered == IF last.op \in Registers THEN last.arg ELSE Null

GetProgressNotifierCall ==
    /\ ~crashed
    /\ LET r == GetProgressNotifier(_progressNotifier)
       IN  /\ last' = [NoCall EXCEPT !.op = "getProgressNotifier",
                                     !.prev = _progressNotifier,
                                     !.outcome = r.outcome, !.ret = r.ret,
                                     !.after = JustRegistered]
           /\ handle' = IF r.outcome = "returned" THEN r.ret ELSE handle
    /\ UNCHANGED <<_progressNotifier, heap, concrete, graph, fs,
                   openChannels, crashed>>

GetProgressNotifierConstCall ==
    /\ ~crashed
    /\ LET r == GetProgressNotifierConst(_progressNotifier)
       IN  /\ last' = [NoCall EXCEPT !.op = "getProgressNotifier const",
                                     !.prev = _progressNotifier,
                                     !.outcome = r.outcome, !.ret = r.ret,
                                     !.after = JustRegistered]
           /\ handle' = r.ret
    /\ UNCHANGED <<_progressNotifier, heap, concrete, graph, fs,
                   openChannels, crashed>>

\* ------------------------------------------------------ the serialize hooks
\* A concrete override of serializeOut( graph, os ): appends a complete
\* encoding of the graph, or fails leaving nothing or a partial encoding.
ConcreteOut(g, bytes, d) ==
    IF d.ok
    THEN [bytes |-> Append(bytes, Encode(g)), thrown |-> FALSE,
          notified |-> d.notify]
    ELSE [bytes |-> IF d.partial THEN Append(bytes, Truncated) ELSE bytes,
          thrown |-> TRUE, notified |-> d.notify]

\* A default that would encode the graph instead of ignoring it.
DefaultSerializeOut_Writes(g, bytes) ==
    [bytes |-> Append(bytes, Encode(g)), thrown |-> FALSE, notified |-> FALSE]

\* Serializer::serializeOut( const Graph&, std::ostream& ) as written:
\* { (void)graph; (void)os; }
DefaultSerializeOut(g, bytes) ==
    [bytes |-> bytes, thrown |-> FALSE, notified |-> FALSE]

\* Virtual dispatch of serializeOut( graph, os ).
SerializeOut(g, bytes, d) ==
    IF concrete THEN ConcreteOut(g, bytes, d) ELSE DefaultSerializeOut(g, bytes)

\* A concrete override of serializeIn( is, graph ): decodes the next token
\* into the graph, or fails (asked to, or on a missing or truncated token)
\* leaving the graph in the unspecified state g2.
ConcreteIn(bytes, pos, g, d, g2) ==
    LET more == pos < Len(bytes)
        good == more /\ bytes[pos + 1].complete /\ d.ok
    IN  IF good
        THEN [pos |-> pos + 1, graph |-> bytes[pos + 1].graph, thrown |-> FALSE,
              notified |-> d.notify]
        ELSE [pos |-> IF more THEN pos + 1 ELSE pos, graph |-> g2,
              thrown |-> TRUE, notified |-> d.notify]

\* Serializer::serializeIn( std::istream&, Graph& ) as written:
\* { (void)is; (void)graph; }
DefaultSerializeIn(bytes, pos, g) ==
    [pos |-> pos, graph |-> g, thrown |-> FALSE, notified |-> FALSE]

\* Virtual dispatch of serializeIn( is, graph ).
SerializeIn(bytes, pos, g, d, g2) ==
    IF concrete THEN ConcreteIn(bytes, pos, g, d, g2)
    ELSE DefaultSerializeIn(bytes, pos, g)

\* OutSerializer::serializeOut( graph, progress ) as written:
\* { (void)graph; (void)progress; }
DefaultCapabilityOut(g, progress) ==
    [graph |-> g, thrown |-> FALSE, notified |-> FALSE]

\* InSerializer::serializeIn( graph, progress ) as written:
\* { (void)graph; (void)progress; }
DefaultCapabilityIn(g, progress) ==
    [graph |-> g, thrown |-> FALSE, notified |-> FALSE]

\* A concrete override of a capability hook: leaves the graph as g2 (the
\* graph itself when writing out), may fail, may invoke the progress
\* notifier it was given.
ConcreteCapability(progress, d, g2) ==
    [graph |-> g2, thrown |-> ~d.ok, notified |-> d.notify /\ progress # Null]

\* How a call of a hook declared noexcept( false ) ends for its caller.
Raised(thrown) == IF thrown THEN "thrown" ELSE "returned"

\* Invoking a notifier that has been deleted is undefined behaviour.
NotifyCrashes(notified, progress) ==
    IF notified /\ progress # Null /\ heap[progress] # "live"
    THEN BOOLEAN ELSE {FALSE}

\* The choices an override has; the defaults have none.
OutChoices == IF concrete THEN Behaviours ELSE {Quiet}
InChoices == IF concrete THEN {d \in Behaviours : ~d.partial} ELSE {Quiet}
GraphAfter(d, g) == IF concrete /\ ~d.ok THEN Graphs ELSE {g}

\* The streams the caller hands to serializeOut (a sink that may already hold
\* something) and to serializeIn (a source, read from its start).
Sources == {<<>>} \cup {<<t>> : t \in Tokens}

SerializeOutCall ==
    /\ ~crashed
    /\ \E d \in OutChoices, sink \in Sources :
          LET r == SerializeOut(graph, sink, d)
          IN  /\ crashed' \in NotifyCrashes(r.notified, _progressNotifier)
              /\ last' = [NoCall EXCEPT !.op = "serializeOut",
                                        !.prev = _progressNotifier,
                                        !.outcome = Raised(r.thrown),
                                        !.notified = r.notified,
                                        !.given = sink,
                                        !.left = [buf |-> r.bytes, pos |-> 0]]
    /\ UNCHANGED <<_progressNotifier, heap, handle, concrete, graph, fs,
                   openChannels>>

SerializeInCall ==
    /\ ~crashed
    /\ \E d \in InChoices, src \in Sources :
       \E g2 \in GraphAfter(d, graph) :
          LET r == SerializeIn(src, 0, graph, d, g2)
          IN  /\ graph' = r.graph
              /\ crashed' \in NotifyCrashes(r.notified, _progressNotifier)
              /\ last' = [NoCall EXCEPT !.op = "serializeIn",
                                        !.prev = _progressNotifier,
                                        !.outcome = Raised(r.thrown),
                                        !.notified = r.notified,
                                        !.given = src,
                                        !.left = [buf |-> src, pos |-> r.pos]]
    /\ UNCHANGED <<_progressNotifier, heap, handle, concrete, fs,
                   openChannels>>

CapabilityOutCall ==
    /\ ~crashed
    /\ \E d \in InChoices, progress \in {Null, _progressNotifier} :
          LET r == IF concrete THEN ConcreteCapability(progress, d, graph)
                   ELSE DefaultCapabilityOut(graph, progress)
          IN  /\ crashed' \in NotifyCrashes(r.notified, progress)
              /\ last' = [NoCall EXCEPT !.op = "OutSerializer::serializeOut",
                                        !.arg = progress,
                                        !.prev = _progressNotifier,
                                        !.outcome = Raised(r.thrown),
                                        !.notified = r.notified]
    /\ UNCHANGED <<_progressNotifier, heap, handle, concrete, graph, fs,
                   openChannels>>

CapabilityInCall ==
    /\ ~crashed
    /\ \E d \in InChoices, progress \in {Null, _progressNotifier} :
       \E g2 \in (IF concrete THEN Graphs ELSE {graph}) :
          LET r == IF concrete THEN ConcreteCapability(progress, d, g2)
                   ELSE DefaultCapabilityIn(graph, progress)
          IN  /\ graph' = r.graph
              /\ crashed' \in NotifyCrashes(r.notified, progress)
              /\ last' = [NoCall EXCEPT !.op = "InSerializer::serializeIn",
                                        !.arg = progress,
                                        !.prev = _progressNotifier,
                                        !.outcome = Raised(r.thrown),
                                        !.notified = r.notified]
    /\ UNCHANGED <<_progressNotifier, heap, handle, concrete, fs,
                   openChannels>>

\* ---------------------------------------------------- the file name wrappers
\* std::ofstream os( fileName, out | trunc | binary ) opens when the file can
\* be created or written; std::ifstream is( fileName, in | binary ) opens
\* when the file exists.
OfstreamOpens(fileName) == fileName \in WritablePaths
IfstreamOpens(fileName, fsys) == fsys[fileName].exists

\* The stream state left untested.
OpenFailed_Unchecked(opened) == FALSE

\* if ( !os ) / if ( !is )
OpenFailed(opened) == ~opened

\* os.close() / is.close(), reached on the normal path only.
StreamClose(ch, fileName) == ch \ {fileName}

\* A channel that scope exit would not close (a raw handle).
StreamDtor_Leaks(ch, fileName) == ch

\* The local std::ofstream / std::ifstream leaves scope: ~basic_filebuf
\* closes the file if it is still open, on every way out of the function.
StreamDtor(ch, fileName) == ch \ {fileName}

\* A wrapper that would catch and drop the exception.
Propagate_Swallowed(thrown) == "returned"

\* An exception thrown by the delegated serializeOut / serializeIn is not
\* caught by the wrapper: it leaves the wrapper too.
Propagate(thrown) == IF thrown THEN "thrown" ELSE "returned"

\* Serializer::serializeOutTo( graph, fileName )
SerializeOutTo(g, fileName, fsys, ch, d) ==
    LET opened == OfstreamOpens(fileName)
        fs1 == IF opened
               THEN [fsys EXCEPT ![fileName] = [exists |-> TRUE, bytes |-> <<>>]]
               ELSE fsys
        ch1 == IF opened THEN ch \cup {fileName} ELSE ch
    IN  IF OpenFailed(opened)
        THEN [fs |-> fs1, ch |-> StreamDtor(ch1, fileName), outcome |-> "returned",
              cerr |-> TRUE, openFailed |-> ~opened, delegated |-> FALSE,
              delegateThrew |-> FALSE, notified |-> FALSE]
        ELSE LET r == SerializeOut(g, IF opened THEN fs1[fileName].bytes ELSE <<>>, d)
                 fs2 == IF opened THEN [fs1 EXCEPT ![fileName].bytes = r.bytes]
                        ELSE fs1
                 ch2 == IF r.thrown THEN ch1 ELSE StreamClose(ch1, fileName)
             IN  [fs |-> fs2, ch |-> StreamDtor(ch2, fileName),
                  outcome |-> Propagate(r.thrown), cerr |-> FALSE,
                  openFailed |-> ~opened, delegated |-> TRUE,
                  delegateThrew |-> r.thrown, notified |-> r.notified]

\* Serializer::serializeInFrom( fileName, graph )
SerializeInFrom(fileName, g, fsys, ch, d, g2) ==
    LET opened == IfstreamOpens(fileName, fsys)
        ch1 == IF opened THEN ch \cup {fileName} ELSE ch
    IN  IF OpenFailed(opened)
        THEN [graph |-> g, ch |-> StreamDtor(ch1, fileName), outcome |-> "returned",
              cerr |-> TRUE, openFailed |-> ~opened, delegated |-> FALSE,
              delegateThrew |-> FALSE, notified |-> FALSE]
        ELSE LET r == SerializeIn(IF opened THEN fsys[fileName].bytes ELSE <<>>,
                                  0, g, d, g2)
                 ch2 == IF r.thrown THEN ch1 ELSE StreamClose(ch1, fileName)
             IN  [graph |-> r.graph, ch |-> StreamDtor(ch2, fileName),
                  outcome |-> Propagate(r.thrown), cerr |-> FALSE,
                  openFailed |-> ~opened, delegated |-> TRUE,
                  delegateThrew |-> r.thrown, notified |-> r.notified]

SerializeOutToCall ==
    /\ ~crashed
    /\ \E fileName \in Paths, d \in OutChoices :
          LET r == SerializeOutTo(graph, fileName, fs, openChannels, d)
          IN  /\ fs' = r.fs
              /\ openChannels' = r.ch
              /\ crashed' \in NotifyCrashes(r.notified, _progressNotifier)
              /\ last' = [NoCall EXCEPT !.op = "serializeOutTo",
                                        !.prev = _progressNotifier,
                                        !.outcome = r.outcome, !.cerr = r.cerr,
                                        !.openFailed = r.openFailed,
                                        !.delegated = r.delegated,
                                        !.delegateThrew = r.delegateThrew,
                                        !.notified = r.notified,
                                        !.path = fileName]
    /\ UNCHANGED <<_progressNotifier, heap, handle, concrete, graph>>

SerializeInFromCall ==
    /\ ~crashed
    /\ \E fileName \in Paths, d \in InChoices :
       \E g2 \in GraphAfter(d, graph) :
          LET r == SerializeInFrom(fileName, graph, fs, openChannels, d, g2)
          IN  /\ graph' = r.graph
              /\ openChannels' = r.ch
              /\ crashed' \in NotifyCrashes(r.notified, _progressNotifier)
              /\ last' = [NoCall EXCEPT !.op = "serializeInFrom",
                                        !.prev = _progressNotifier,
                                        !.outcome = r.outcome, !.cerr = r.cerr,
                                        !.openFailed = r.openFailed,
                                        !.delegated = r.delegated,
                                        !.delegateThrew = r.delegateThrew,
                                        !.notified = r.notified,
                                        !.path = fileName]
    /\ UNCHANGED <<_progressNotifier, heap, handle, concrete, fs>>

Next ==
    \/ RegisterUniqueCall
    \/ RegisterRawCall
    \/ GetProgressNotifierCall
    \/ GetProgressNotifierConstCall
    \/ SerializeOutCall
    \/ SerializeInCall
    \/ CapabilityOutCall
    \/ CapabilityInCall
    \/ SerializeOutToCall
    \/ SerializeInFromCall

Spec == Init /\ [][Next]_vars

\* ------------------------------------------------------------------ claims
\* C1: in every state reachable from construction by registrations (either
\* overload, null or non-null argument), accessor calls and serialize calls,
\* the serializer's held progress notifier is non-null.
C1_NotifierNeverNull == _progressNotifier # Null

\* C1 witness: a null registration has just been made on a serializer whose
\* default notifier had been replaced.
C1_Witness ==
    /\ last.op \in Registers
    /\ last.arg = Null
    /\ _progressNotifier \notin {Null, 1}

\* C2: whenever the held notifier is non-null, the non-const
\* getProgressNotifier() returns it instead of raising an error (in
\* particular on a freshly constructed serializer).
C2_GetReturnsHeld ==
    (last.op = "getProgressNotifier" /\ last.prev # Null)
        => (last.outcome = "returned" /\ last.ret = last.prev)

\* C3: registerProgressNotifier(r) with r non-null, immediately followed by
\* getProgressNotifier(), returns a handle on exactly r.
C3_RegisterThenGet ==
    (last.op = "getProgressNotifier" /\ last.after # Null)
        => (last.outcome = "returned" /\ last.ret = last.after)

\* C4: a registration with a null argument, by either overload, is a no-op:
\* the installed reporter is the same before and after, no reporter is
\* destroyed, and nothing else of the serializer or its surroundings changes.
C4_NullRegisterIsNoOp ==
    [][(last'.op \in Registers /\ last'.arg = Null)
         => /\ last'.deleted = <<>>
            /\ UNCHANGED <<_progressNotifier, heap, handle, concrete, graph,
                           fs, openChannels, crashed>>]_vars

\* C4 witness: the raw-pointer overload has been called with nullptr while a
\* custom, live notifier is installed.
C4_Witness ==
    /\ last.op = "registerProgressNotifier(raw)"
    /\ last.arg = Null
    /\ _progressNotifier = 2
    /\ heap[2] = "live"

\* C5: a registration with a non-null reporter installs it, destroys the
\* previously held reporter exactly once and nothing else, and leaves the
\* new reporter alive: the serializer then owns exactly one live reporter.
C5_RegisterDestroysPreviousOnly ==
    (last.op \in Registers /\ last.arg # Null)
        => /\ _progressNotifier = last.arg
           /\ last.deleted = <<last.prev>>
           /\ heap[last.prev] = "deleted"
           /\ heap[last.arg] = "live"

\* C6: when a file name wrapper cannot open its file, it never calls the
\* stream based hook, changes no file, leaves the graph untouched, and
\* reports the open failure.
C6_OpenFailureAborts ==
    [][(last'.op \in Wrappers /\ last'.openFailed)
         => /\ ~last'.delegated
            /\ last'.cerr
            /\ fs' = fs
            /\ graph' = graph]_vars

\* C6 witness: serializeOutTo has been called on a concrete serializer with a
\* file name that cannot be opened for writing.
C6_Witness ==
    /\ concrete
    /\ last.op = "serializeOutTo"
    /\ last.openFailed
    /\ last.path = "ro"

\* C7, as stated: every failure of a file name wrapper is observable by its
\* caller: an open failure ends the call otherwise than by a normal return,
\* and a failure of the delegated hook leaves the wrapper as an exception.
C7_FailuresReachCaller ==
    (last.op \in Wrappers)
        => /\ last.openFailed => last.outcome # "returned"
           /\ last.delegateThrew => last.outcome = "thrown"

\* C7, amended: an open failure is reported by a message on std::cerr only
\* and the wrapper returns normally, as it does on success; a failure of the
\* delegated hook leaves the wrapper as an exception, without a message; a
\* success returns normally without a message.
C7_OpenFailureLoggedDelegateFailureThrown ==
    (last.op \in Wrappers)
        => /\ last.openFailed => (last.outcome = "returned" /\ last.cerr)
           /\ last.delegateThrew => (last.outcome = "thrown" /\ ~last.cerr)
           /\ (~last.openFailed /\ ~last.delegateThrew)
                 => (last.outcome = "returned" /\ ~last.cerr)

\* C7 witness: the hook that serializeInFrom delegated to has failed.
C7_Witness ==
    /\ last.op = "serializeInFrom"
    /\ last.delegated
    /\ last.delegateThrew

\* C8: whichever way a file name wrapper is left (normal return, exception
\* from the delegated hook, early return on open failure), no file channel
\* it opened remains open.
C8_ChannelReleased == (last.op \in Wrappers) => openChannels = {}

\* C8 witness: serializeOutTo has been left by the exception of the hook it
\* delegated to, after the file was opened.
C8_Witness ==
    /\ last.op = "serializeOutTo"
    /\ ~last.openFailed
    /\ last.delegateThrew

\* C9: on a serializer that overrides no hook, every serializeOut and
\* serializeIn call (capability defaults and stream based defaults) is a
\* no-op: the stream is left as given, the graph and the files are
\* untouched, the installed reporter is neither changed nor invoked, and no
\* error is signalled.
C9_DefaultsAreNoOps ==
    [][(~concrete /\ last'.op \in StreamHooks \cup CapabilityHooks)
         => /\ last'.left = [buf |-> last'.given, pos |-> 0]
            /\ last'.outcome = "returned"
            /\ ~last'.notified
            /\ UNCHANGED <<_progressNotifier, heap, handle, concrete, graph,
                           fs, openChannels, crashed>>]_vars

\* C9 witness: the default serializeOut has been called with a sink that
\* already held an encoding.
C9_Witness ==
    /\ ~concrete
    /\ last.op = "serializeOut"
    /\ last.given # <<>>

\* C10: after any sequence of registrations, the raw-pointer overload given
\* the installed notifier included, the installed reporter is a live object
\* and no reporter has been destroyed more than once.
C10_InstalledLiveNoDoubleDelete ==
    /\ _progressNotifier # Null => heap[_progressNotifier] = "live"
    /\ \A o \in Reporters : heap[o] # "deleted again"
====
